---- MODULE Spec2Model ----
(***************************************************************************)
(* Model of the paginated catalog cache of services/streamingService.ts    *)
(* (page fetcher, category merge index, cursor tracker, background         *)
(* deep-loader) and of its wrappers in services/mediaService.ts.           *)
(*                                                                         *)
(* JavaScript runs these functions on one thread: an async function runs   *)
(* without interruption from one await to the next.  Every action below is *)
(* one such uninterrupted segment.                                         *)
(***************************************************************************)
EXTENDS Integers, Sequences, FiniteSets

\* ------------------------------------------------------------------ bounds

\* Number of categories of CATEGORIES that the model walks (the app has 61).
NumCats == 2
\* Interactive fetches that may be awaiting the network at the same time.
MaxInflight == 1
\* Deep-loader loop instances the model has room for.
MaxLoops == 2

\* Page-size threshold of the tail-page heuristic, `items.length < 50` in the
\* source.  The model scales it down; the threshold is read by that one
\* comparison only, and every page size below is stated relative to it.
PAGE_SIZE == 4

CATEGORIES == 1..NumCats

\* ----------------------------------------------------------------- strings
\* A JavaScript string is a sequence of character codes.

Undefined == -1

RECURSIVE toString(_)
\* Number.prototype.toString(): the decimal digits of a non-negative integer.
toString(n) ==
    IF n < 10 THEN <<48 + n>> ELSE toString(n \div 10) \o <<48 + (n % 10)>>

\* The template literal `item-${index}`.
ItemIndexId(index) == <<105, 116, 101, 109, 45>> \o toString(index)

\* ------------------------------------------------------------- media items

\* Strings are sequences of character codes; <<>> is also an absent string.
NoTmdb == [present |-> FALSE, id |-> Undefined, title |-> <<>>]
Tmdb(n) == [present |-> TRUE, id |-> n, title |-> <<>>]
NoEpisodes == [present |-> FALSE, seasons |-> <<>>]
Episodes(f) == [present |-> TRUE, seasons |-> f]
Ep(n, tag) == [episode |-> n, id |-> tag]

\* 'Sem título'
SemTitulo == <<83, 101, 109, 32, 116, 237, 116, 117, 108, 111>>

\* createMediaItem: the fields of a raw record that the cache keeps.
\* id falls back to `item-${index}`, type falls back to 'movie'.
\* name falls back to 'Sem título'; tmdb.title to the name, then to the same.
createMediaItem(obj, index) ==
    [id       |-> IF obj.id = <<>> THEN ItemIndexId(index) ELSE obj.id,
     name     |-> IF obj.name = <<>> THEN SemTitulo ELSE obj.name,
     type     |-> IF obj.type = "" THEN "movie" ELSE obj.type,
     episodes |-> obj.episodes,
     tmdb     |-> IF obj.tmdb.present
                  THEN [obj.tmdb EXCEPT !.title =
                           IF obj.tmdb.title # <<>> THEN obj.tmdb.title
                           ELSE IF obj.name # <<>> THEN obj.name
                           ELSE SemTitulo]
                  ELSE obj.tmdb]

\* data.map((obj, index) => createMediaItem(obj, index)), index from 0.
MapItems(data) == [i \in 1..Len(data) |-> createMediaItem(data[i], i - 1)]

\* item.tmdb?.id?.toString() || item.id
KeyOf(item) ==
    IF item.tmdb.present /\ item.tmdb.id # Undefined
    THEN toString(item.tmdb.id)
    ELSE item.id

\* ------------------------------------------------------------------- merge

\* A lookup that never finds the episode.
HasEpisode_Never(eps, ep) == FALSE

\* existingEps.some(e => e.episode === ep.episode)
HasEpisode(eps, ep) == \E i \in 1..Len(eps) : eps[i].episode = ep.episode

RECURSIVE PushNew(_, _, _)
\* newEps.forEach(ep => { if (!existingEps.some(...)) existingEps.push(ep) })
PushNew(existingEps, newEps, i) ==
    IF i > Len(newEps) THEN existingEps
    ELSE PushNew(IF HasEpisode(existingEps, newEps[i])
                 THEN existingEps
                 ELSE Append(existingEps, newEps[i]),
                 newEps, i + 1)

RECURSIVE InsertSorted(_, _)
\* Stable insertion of ep into a list sorted by episode number.
InsertSorted(sorted, ep) ==
    IF sorted = <<>> THEN <<ep>>
    ELSE IF sorted[Len(sorted)].episode <= ep.episode THEN Append(sorted, ep)
    ELSE Append(InsertSorted(SubSeq(sorted, 1, Len(sorted) - 1), ep),
                sorted[Len(sorted)])

\* A sort that leaves the list as it is.
SortEps_KeepsOrder(eps, i, acc) == eps

RECURSIVE SortEps(_, _, _)
\* existingEps.sort((a, b) => a.episode - b.episode): a stable sort.
SortEps(eps, i, acc) ==
    IF i > Len(eps) THEN acc ELSE SortEps(eps, i + 1, InsertSorted(acc, eps[i]))

\* The season branch of deduplicateItems: a season the stored item lacks is
\* taken whole; a season both have is united by episode number and sorted.
MergeSeasons(ex, nw) ==
    [s \in (DOMAIN ex) \cup (DOMAIN nw) |->
        IF s \notin DOMAIN nw THEN ex[s]
        ELSE IF s \notin DOMAIN ex THEN nw[s]
        ELSE SortEps(PushNew(ex[s], nw[s], 1), 1, <<>>)]

\* A merge in which the later item replaces the stored one.
MergeItem_TakesIncoming(existing, item) == item

\* What the stored item becomes when an item with the same key arrives.
MergeItem(existing, item) ==
    IF item.type = "tv" /\ item.episodes.present /\ existing.episodes.present
    THEN [existing EXCEPT !.episodes =
             Episodes(MergeSeasons(existing.episodes.seasons, item.episodes.seasons))]
    ELSE existing

\* Position in acc of the item stored under `key`, 0 when there is none.
IndexOfKey(acc, key) ==
    IF \E i \in 1..Len(acc) : KeyOf(acc[i]) = key
    THEN CHOOSE i \in 1..Len(acc) : KeyOf(acc[i]) = key
    ELSE 0

\* A for-loop that never looks the key up.
DedupStep_AlwaysAppends(acc, item) == Append(acc, item)

\* One iteration of the for-loop of deduplicateItems.
DedupStep(acc, item) ==
    LET at == IndexOfKey(acc, KeyOf(item)) IN
    IF at = 0 THEN Append(acc, item)
    ELSE [acc EXCEPT ![at] = MergeItem(acc[at], item)]

\* The value of an expression, computed once: the only element of {v}.
TheOnly(S) == CHOOSE v \in S : TRUE

RECURSIVE DedupFrom(_, _, _)
\* The for-loop of deduplicateItems over items[n..], in order, starting
\* from the map `acc`.
DedupFrom(acc, items, n) ==
    IF n > Len(items) THEN acc
    ELSE TheOnly({DedupFrom(DedupStep(map, items[n]), items, n + 1) : map \in {acc}})

\* deduplicateItems(items): Array.from(map.values()) keeps insertion order.
deduplicateItems(items) == TheOnly({DedupFrom(<<>>, list, 1) : list \in {items}})

\* ----------------------------------------------------------- remote server
\* The static JSON files behind GITHUB_BASE: for every category the raw
\* records of each of its pages; a page past the last one answers 404.

Raw(id, type, episodes, tmdb) ==
    [id |-> id, name |-> <<>>, type |-> type, episodes |-> episodes, tmdb |-> tmdb]

\* A plain movie record with an id of its own: "c<cat>p<page>i<index>".
Filler(c, p, i) ==
    Raw(<<99>> \o toString(c) \o <<112>> \o toString(p) \o <<105>> \o toString(i),
        "movie", NoEpisodes, NoTmdb)

Fill(c, p, from, to) == [k \in 1..(to - from + 1) |-> Filler(c, p, from + k - 1)]

\* Series "x" (tmdb 5) as page 1 and as page 2 of a category list it.
SeriesX1 ==
    Raw(<<120, 49>>, "tv",
        Episodes([s \in {"1"} |-> <<Ep(1, "a"), Ep(2, "a")>>]), Tmdb(5))
SeriesX2 ==
    Raw(<<120, 50>>, "tv",
        Episodes([s \in {"1", "2"} |->
                    IF s = "1" THEN <<Ep(2, "b"), Ep(3, "b")>> ELSE <<Ep(1, "b")>>]),
        Tmdb(5))
\* A series whose season list arrives unsorted from the server.
SeriesU ==
    Raw(<<117>>, "tv", Episodes([s \in {"1"} |-> <<Ep(2, "u"), Ep(1, "u")>>]), NoTmdb)
\* A movie with tmdb id 7, a record whose local id is the string "7", and a
\* series record filed under tmdb id 7 as well.
Movie7 == Raw(<<109, 55>>, "movie", NoEpisodes, Tmdb(7))
Local7 == Raw(<<55>>, "", NoEpisodes, NoTmdb)
Series7 ==
    Raw(<<116, 55>>, "tv", Episodes([s \in {"1"} |-> <<Ep(1, "t")>>]), Tmdb(7))
\* A record without id, and one whose tmdb block has no id.
NoIdRecord == Raw(<<>>, "movie", NoEpisodes, NoTmdb)
NoTmdbIdRecord == Raw(<<110>>, "movie", NoEpisodes, Tmdb(Undefined))
\* A second record with tmdb id 7, listed on the same page as Movie7.
Movie7Again == Raw(<<109, 56>>, "movie", NoEpisodes, Tmdb(7))

\* A record with a name, and with a title in its tmdb block.
Named(record, name) == [record EXCEPT !.name = name]
Titled(record, title) == [record EXCEPT !.tmdb.title = title]

\* Two categories whose records meet in the search: "Foo" (id a) and "FOO"
\* (id e) differ in case only; the second record of either page has no id
\* and becomes item-1, named "foo b" in one and "food" in the other; the
\* movie "zz" is listed under the tmdb title "Net".
TitledPages(c) ==
    IF c = 1 THEN
        << <<Named(Raw(<<97>>, "movie", NoEpisodes, NoTmdb), <<70, 111, 111>>),
             Named(NoIdRecord, <<102, 111, 111, 32, 98>>),
             Titled(Named(Raw(<<99>>, "movie", NoEpisodes, Tmdb(7)), <<122, 122>>),
                    <<78, 101, 116>>)>> >>
    ELSE IF c = 2 THEN
        << <<Named(Raw(<<101>>, "movie", NoEpisodes, NoTmdb), <<70, 79, 79>>),
             Named(NoIdRecord, <<102, 111, 111, 100>>)>> >>
    ELSE << Fill(c, 1, 1, 2) >>

\* A full page: the given records, filled up to PAGE_SIZE with plain movies.
FullPage(c, p, records) == records \o Fill(c, p, Len(records) + 1, PAGE_SIZE)

\* The catalog the program runs against.  Category 1 lists records that
\* share keys, on two full pages and a short one.  The keys of every other
\* category are distinct: an even category has one full page, an odd one a
\* short page.
SharedKeyPages(c) ==
    IF c = 1 THEN
        <<FullPage(c, 1, <<SeriesX1, NoIdRecord, Movie7, Movie7Again>>),
          FullPage(c, 2, <<SeriesX2, Local7, SeriesU>>),
          <<Series7, NoIdRecord, NoTmdbIdRecord>> >>
    ELSE IF c % 2 = 0 THEN
        << FullPage(c, 1, <<>>) >>
    ELSE << Fill(c, 1, 1, 1) >>

\* A category of plain movies with distinct ids: page p holds sizes[p] records.
PlainPages(c, sizes) == [p \in 1..Len(sizes) |-> Fill(c, p, 1, sizes[p])]

\* Page shapes: a single short page, full pages closed by a short one, and a
\* single full page with nothing after it.
PageShapes ==
    {<<2>>, <<PAGE_SIZE, 1>>, <<PAGE_SIZE, PAGE_SIZE, PAGE_SIZE - 1>>, <<PAGE_SIZE>>}

\* Season lists of a series record, sorted by episode number.
EpisodeNumbers == {<<1, 2>>, <<2, 3>>, <<1>>}
SeasonNames == {"1", "2"}
\* The season maps over SeasonNames: every season is absent or one list.
SeasonMaps ==
    UNION {[names -> EpisodeNumbers] : names \in SUBSET SeasonNames}

\* The series record `id` with tmdb id 5 and the given seasons.
SeriesRecord(id, tag, seasons) ==
    Raw(id, "tv",
        Episodes([s \in DOMAIN seasons |->
                    [i \in 1..Len(seasons[s]) |-> Ep(seasons[s][i], tag)]]),
        Tmdb(5))

\* A category that lists one series twice: on its full first page with the
\* seasons sa, on its short second page with the seasons sb.
SeriesPairPages(c, sa, sb) ==
    <<FullPage(c, 1, <<SeriesRecord(<<120, 49>>, "a", sa)>>),
      <<SeriesRecord(<<120, 50>>, "b", sb)>> >>

\* --------------------------------------------------------- download service
\* unnamed/part_006: a whole category file is downloaded, its records are cut
\* out of the text, and the items are kept in a file of the cache directory.
\* A text is a sequence of characters.

\* The limits of the download service: MAX_ITEMS_PER_CATEGORY as in the
\* source; the size from which a file is read in chunks (15 MB) and the size
\* of a chunk (4 MB) scaled down to characters.
MAX_ITEMS_PER_CATEGORY == 9999
FAST_LIMIT == 20
CHUNK_SIZE == 8
\* The most objects of a downloaded file.
MaxObjects == 2

\* JSON.parse of a slice cut out of the array: the slice is accepted when it
\* is one object, braces balanced outside strings, closed by its last
\* character and every string closed; the object is known by its text.
RECURSIVE BalancedFrom(_, _, _, _, _)
BalancedFrom(text, i, depth, inString, escape) ==
    IF i > Len(text) THEN depth = 0 /\ ~inString
    ELSE IF escape THEN BalancedFrom(text, i + 1, depth, inString, FALSE)
    ELSE IF inString
    THEN BalancedFrom(text, i + 1, depth,
                      text[i] # "\"", text[i] = "\\")
    ELSE IF text[i] = "\"" THEN depth >= 1 /\ BalancedFrom(text, i + 1, depth, TRUE, FALSE)
    ELSE IF text[i] = "{" THEN BalancedFrom(text, i + 1, depth + 1, FALSE, FALSE)
    ELSE IF text[i] = "}"
    THEN (depth > 1 \/ i = Len(text)) /\ depth >= 1
         /\ BalancedFrom(text, i + 1, depth - 1, FALSE, FALSE)
    ELSE depth >= 1 /\ BalancedFrom(text, i + 1, depth, FALSE, FALSE)
ParsesAsObject(text) == text # <<>> /\ BalancedFrom(text, 1, 0, FALSE, FALSE)

\* createMediaItem(obj, items.length) of the download service: the item of
\* the object with that text, `item-${index}` being its id if it has none.
DownloadedItem(text, index) == [object |-> text, index |-> index]

\* The scanner's variables before the first character.
ScanStart ==
    [depth |-> 0, inString |-> FALSE, escape |-> FALSE, objectStart |-> -1,
     arrayStarted |-> FALSE, items |-> <<>>]

\* try { items.push(createMediaItem(JSON.parse(slice), items.length)) } catch {}
PushParsed(items, slice) ==
    IF ParsesAsObject(slice) THEN Append(items, DownloadedItem(slice, Len(items)))
    ELSE items

\* One turn of the character loop, at index i (from 0) of `buffer`, whose
\* first character is character `bufferOffset` of the file.  The loop of
\* extractItemsFast is this one with the whole file as buffer at offset 0.
ScanChar(st, buffer, i, bufferOffset) ==
    LET char == buffer[i + 1] IN
    IF st.escape THEN [st EXCEPT !.escape = FALSE]
    ELSE IF char = "\\" /\ st.inString THEN [st EXCEPT !.escape = TRUE]
    ELSE IF char = "\"" THEN [st EXCEPT !.inString = ~st.inString]
    ELSE IF st.inString THEN st
    ELSE IF char = "[" /\ ~st.arrayStarted THEN [st EXCEPT !.arrayStarted = TRUE]
    ELSE IF char = "{"
    THEN [st EXCEPT !.objectStart = IF st.depth = 0 THEN bufferOffset + i ELSE @,
                    !.depth = @ + 1]
    ELSE IF char = "}"
    THEN IF st.depth - 1 = 0 /\ st.objectStart # -1
         THEN LET start == st.objectStart - bufferOffset IN
              [st EXCEPT !.depth = @ - 1,
                         !.objectStart = -1,
                         !.items = IF start >= 0
                                   THEN PushParsed(@, SubSeq(buffer, start + 1, i + 1))
                                   ELSE @]
         ELSE [st EXCEPT !.depth = @ - 1]
    ELSE st

RECURSIVE ScanFrom(_, _, _, _, _)
\* for (let i = 0; i < buffer.length && items.length < maxItems; i++)
ScanFrom(st, buffer, i, bufferOffset, maxItems) ==
    IF i < Len(buffer) /\ Len(st.items) < maxItems
    THEN ScanFrom(ScanChar(st, buffer, i, bufferOffset), buffer, i + 1, bufferOffset, maxItems)
    ELSE st

\* extractItemsFast: the whole text in one scan.
extractItemsFast(content, maxItems) ==
    ScanFrom(ScanStart, content, 0, 0, maxItems).items

Min(a, b) == IF a < b THEN a ELSE b
Max(a, b) == IF a > b THEN a ELSE b

\* One turn of the while of extractItemsChunked: the next chunk is read and
\* appended to the buffer, the buffer is scanned from its first character,
\* and the buffer is cut down to the object still open.
ChunkTurn(cs, content, chunkSize, maxItems) ==
    LET readSize == Min(chunkSize, Len(content) - cs.position)
        text == SubSeq(content, cs.position + 1, cs.position + readSize)
        buffer == cs.buffer \o text
        st == ScanFrom(cs.st, buffer, 0, cs.bufferOffset, maxItems)
        keepFrom == Max(0, st.objectStart - cs.bufferOffset)
    IN IF st.objectStart = -1
       THEN [position |-> cs.position + readSize, buffer |-> <<>>,
             bufferOffset |-> cs.bufferOffset + Len(buffer), st |-> st]
       ELSE [position |-> cs.position + readSize,
             buffer |-> SubSeq(buffer, keepFrom + 1, Len(buffer)),
             bufferOffset |-> cs.bufferOffset + keepFrom, st |-> st]

RECURSIVE ChunkLoop(_, _, _, _)
\* while (position < fileSize && items.length < maxItems)
ChunkLoop(cs, content, chunkSize, maxItems) ==
    IF cs.position < Len(content) /\ Len(cs.st.items) < maxItems
    THEN ChunkLoop(ChunkTurn(cs, content, chunkSize, maxItems), content, chunkSize, maxItems)
    ELSE cs

\* extractItemsChunked with CHUNK_SIZE = chunkSize.
extractItemsChunked(content, chunkSize, maxItems) ==
    ChunkLoop([position |-> 0, buffer |-> <<>>, bufferOffset |-> 0, st |-> ScanStart],
              content, chunkSize, maxItems).st.items

\* Texts of objects: {"a":1}, {"a":{"b":1}}, a string holding a closing
\* brace {"a":"}"}, and a string holding an escaped quote and an opening
\* brace {"a":"\"{"}.
ObjectTexts ==
    { <<"{", "\"", "a", "\"", ":", "1", "}">>,
      <<"{", "\"", "a", "\"", ":", "{", "\"", "b", "\"", ":", "1", "}", "}">>,
      <<"{", "\"", "a", "\"", ":", "\"", "}", "\"", "}">>,
      <<"{", "\"", "a", "\"", ":", "\"", "\\", "\"", "{", "\"", "}">> }

RECURSIVE JoinObjects(_)
JoinObjects(objects) ==
    IF Len(objects) = 1 THEN objects[1]
    ELSE objects[1] \o <<",">> \o JoinObjects(Tail(objects))
\* JSON.stringify of an array of objects.
ArrayText(objects) ==
    IF objects = <<>> THEN <<"[", "]">> ELSE <<"[">> \o JoinObjects(objects) \o <<"]">>

\* ------------------------------------------------------------------- state

VARIABLES
    PAGE_CACHE,             \* <<category, page>> -> items
    CATEGORY_CACHE,         \* category -> merged items
    CATEGORY_KEYS,          \* the keys of CATEGORY_CACHE in insertion order
    LAST_PAGE,              \* category -> last page known
    HAS_MORE,               \* category -> BOOLEAN
    isBackgroundLoading,
    stopBackgroundLoading,
    loops,                  \* the deep-loader loop instances
    calls,                  \* interactive calls awaiting their fetch
    remote,                 \* the server's files: category -> pages of raw records
    cacheFiles,             \* download service: category -> its file in the cache directory
    job,                    \* download service: the call that is running
    observe,                \* which history this behaviour records
    lastReq,                \* history: category -> last next-page number asked for
    lastEvent               \* history: the segment that ran last

vars == <<PAGE_CACHE, CATEGORY_CACHE, CATEGORY_KEYS, LAST_PAGE, HAS_MORE,
          isBackgroundLoading, stopBackgroundLoading, loops, calls,
          remote, cacheFiles, job, observe, lastReq, lastEvent>>

caches == <<PAGE_CACHE, CATEGORY_CACHE, CATEGORY_KEYS, LAST_PAGE, HAS_MORE>>

\* A JavaScript Map as a function on the keys it holds.
EmptyMap == <<>>
MapHas(m, k) == k \in DOMAIN m
MapSet(m, k, v) == [x \in (DOMAIN m) \cup {k} |-> IF x = k THEN v ELSE m[x]]

\* The two histories are recorded in different behaviours, so that they do
\* not multiply each other's states: observe = "events" records lastEvent,
\* observe = "requests" records lastReq.
\* `list` is the list a call returned without fetching, <<>> otherwise.
\* `notified` counts the calls of onNewData the segment made; `list` is then
\* the merged list of the category as that callback finds it.
NoEvent == [op |-> "", cat |-> 0, page |-> 0, res |-> "", list |-> <<>>, notified |-> 0]
EvReturning(op, cat, page, res, list) ==
    IF observe = "events"
    THEN [op |-> op, cat |-> cat, page |-> page, res |-> res, list |-> list,
          notified |-> 0]
    ELSE NoEvent
EvNotifying(op, cat, page, res, notified, list) ==
    IF observe = "events"
    THEN [op |-> op, cat |-> cat, page |-> page, res |-> res,
          list |-> IF notified > 0 THEN list ELSE <<>>, notified |-> notified]
    ELSE NoEvent
Ev(op, cat, page, res) == EvReturning(op, cat, page, res, <<>>)
\* lastReq follows the requests of a category until the caches are reset.
Requested(c, p) ==
    IF observe = "requests" /\ lastReq[c] # Undefined
    THEN [lastReq EXCEPT ![c] = p]
    ELSE lastReq

\* The body of <category>-p<page>.json for page = 1..Len(RemotePages(c));
\* the server has no file for any other name.
RemotePages(c) == IF c \in DOMAIN remote THEN remote[c] ELSE <<>>

NoLoop == [pc |-> "none", cat |-> 0, page |-> 0]
NoCall == [op |-> "free", cat |-> 0, page |-> 0]
LoopIds == 1..MaxLoops
CallIds == 1..MaxInflight

\* The download service before its first call: no file, no call.
NoFile == [kind |-> "absent", items |-> <<>>]
NoJob == [op |-> "idle"]
DownloadsIdle ==
    /\ cacheFiles = [c \in CATEGORIES |-> NoFile]
    /\ job = NoJob

\* The streaming service as loaded: empty maps, no loader, nothing in flight.
StreamingLoaded ==
    /\ PAGE_CACHE = EmptyMap
    /\ CATEGORY_CACHE = EmptyMap
    /\ CATEGORY_KEYS = <<>>
    /\ LAST_PAGE = EmptyMap
    /\ HAS_MORE = EmptyMap
    /\ isBackgroundLoading = FALSE
    /\ stopBackgroundLoading = FALSE
    /\ loops = [l \in LoopIds |-> NoLoop]
    /\ calls = [k \in CallIds |-> NoCall]
    /\ lastReq = [c \in CATEGORIES |-> 0]
    /\ lastEvent = NoEvent

\* The program as loaded.
Loaded ==
    /\ StreamingLoaded
    /\ DownloadsIdle

Init ==
    /\ Loaded
    /\ remote = [c \in CATEGORIES |-> SharedKeyPages(c)]
    /\ observe \in {"events", "requests"}

\* ------------------------------------------------------------ cursor reads

\* CATEGORY_CACHE.get(categoryId) || []
getCategoryItems(c) == IF MapHas(CATEGORY_CACHE, c) THEN CATEGORY_CACHE[c] ELSE <<>>

\* HAS_MORE.get(categoryId) !== false
categoryHasMore(c) == ~(MapHas(HAS_MORE, c) /\ HAS_MORE[c] = FALSE)

\* LAST_PAGE.get(categoryId) || fallback
LastPageOr(c, fallback) ==
    IF MapHas(LAST_PAGE, c) /\ LAST_PAGE[c] # 0 THEN LAST_PAGE[c] ELSE fallback

\* const currentPage = LAST_PAGE.get(id) || 1; const nextPage = currentPage + 1
NextPageOf(c) == LastPageOr(c, 1) + 1

\* PAGE_CACHE.has(`${categoryId}-p${page}`)
PageCached(c, p) == MapHas(PAGE_CACHE, <<c, p>>)

\* --------------------------------------------------------- fetchCategoryPage

\* What the network can answer to GET <category>-p<page>.json:
\*   "ok"        2xx with the page's non-empty list;
\*   "notfound"  404, the page does not exist;
\*   "http5xx"   another status that is not ok;
\*   "neterr"    fetch rejects;
\*   "badjson"   2xx, response.json() rejects;
\*   "notlist"   2xx with a body that is not a non-empty list ([] or no array).
Outcomes(c, p) ==
    (IF p <= Len(RemotePages(c)) THEN {"ok"} ELSE {"notfound"})
        \cup {"http5xx", "neterr", "badjson", "notlist"}

\* The items fetchCategoryPage returns for an answer.
FetchedItems(c, p, out) ==
    IF out = "ok" THEN MapItems(RemotePages(c)[p]) ELSE <<>>

\* A threshold one item too low.
IsTailPage_OffByOne(items) == Len(items) + 1 < PAGE_SIZE

\* items.length < 50
IsTailPage(items) == Len(items) < PAGE_SIZE

\* PAGE_CACHE after the answer: PAGE_CACHE.set(cacheKey, items).  The pages
\* are kept as fetched; the merged episode lists are read from CATEGORY_CACHE.
PageCacheAfter(c, p, out) ==
    IF out = "ok" THEN MapSet(PAGE_CACHE, <<c, p>>, FetchedItems(c, p, out))
    ELSE PAGE_CACHE

\* A merge that keeps the fetched page only.
CategoryCacheAfter_KeepsLastPage(c, p, out) ==
    IF out = "ok"
    THEN MapSet(CATEGORY_CACHE, c, deduplicateItems(FetchedItems(c, p, out)))
    ELSE CATEGORY_CACHE

\* CATEGORY_CACHE after the answer: deduplicateItems([...existing, ...items]).
CategoryCacheAfter(c, p, out) ==
    IF out = "ok"
    THEN MapSet(CATEGORY_CACHE, c,
                deduplicateItems(getCategoryItems(c) \o FetchedItems(c, p, out)))
    ELSE CATEGORY_CACHE

\* A Map iterates its keys in the order they were first set.
CategoryKeysAfter(c, p, out) ==
    IF out = "ok" /\ ~MapHas(CATEGORY_CACHE, c)
    THEN Append(CATEGORY_KEYS, c)
    ELSE CATEGORY_KEYS

\* A cursor that is never written.
LastPageAfter_NeverAdvances(c, p, out) == LAST_PAGE

\* LAST_PAGE after the answer: advanced when page > currentLast.
LastPageAfter(c, p, out) ==
    IF out = "ok" /\ p > LastPageOr(c, 0) THEN MapSet(LAST_PAGE, c, p) ELSE LAST_PAGE

\* HAS_MORE after the answer.  !response.ok (404, 5xx) and a body that is
\* not a non-empty array record false; a thrown fetch or json() leaves it.
HasMoreAfter(c, p, out) ==
    IF out \in {"notfound", "http5xx", "notlist"}
    THEN MapSet(HAS_MORE, c, FALSE)
    ELSE IF out = "ok"
    THEN MapSet(HAS_MORE, c, ~IsTailPage(FetchedItems(c, p, out)))
    ELSE HAS_MORE

\* The part of fetchCategoryPage after `await fetch(url)`.
FetchAnswered(c, p, out) ==
    /\ PAGE_CACHE' = PageCacheAfter(c, p, out)
    /\ CATEGORY_CACHE' = CategoryCacheAfter(c, p, out)
    /\ CATEGORY_KEYS' = CategoryKeysAfter(c, p, out)
    /\ LAST_PAGE' = LastPageAfter(c, p, out)
    /\ HAS_MORE' = HasMoreAfter(c, p, out)

\* -------------------------------------------------------------------- search

\* String.prototype.toLowerCase, on the letters A-Z.
LowerCode(ch) == IF ch \in 65..90 THEN ch + 32 ELSE ch
toLowerCase(str) == [i \in 1..Len(str) |-> LowerCode(str[i])]

\* String.prototype.trim: white space off both ends.
WhiteSpace == {9, 10, 13, 32}
RECURSIVE trimStart(_)
trimStart(str) ==
    IF str # <<>> /\ str[1] \in WhiteSpace THEN trimStart(Tail(str)) ELSE str
RECURSIVE trimEnd(_)
trimEnd(str) ==
    IF str # <<>> /\ str[Len(str)] \in WhiteSpace
    THEN trimEnd(SubSeq(str, 1, Len(str) - 1))
    ELSE str
trim(str) == trimEnd(trimStart(str))

\* String.prototype.includes
includes(str, part) ==
    \E i \in 0..(Len(str) - Len(part)) : SubSeq(str, i + 1, i + Len(part)) = part

\* item.tmdb?.title || item.name
DisplayTitle(item) ==
    IF item.tmdb.present /\ item.tmdb.title # <<>> THEN item.tmdb.title ELSE item.name

\* The body of the for-loop of searchInLoadedData for one item.
SearchStep(acc, item, normalized) ==
    IF item.id \in acc.seen THEN acc
    ELSE IF includes(toLowerCase(DisplayTitle(item)), normalized)
    THEN [results |-> Append(acc.results, item), seen |-> acc.seen \cup {item.id}]
    ELSE acc

RECURSIVE SearchItems(_, _, _, _)
SearchItems(acc, items, i, normalized) ==
    IF i > Len(items) THEN acc
    ELSE SearchItems(SearchStep(acc, items[i], normalized), items, i + 1, normalized)

RECURSIVE SearchCategories(_, _, _)
\* CATEGORY_CACHE.forEach, from the k-th key on.
SearchCategories(acc, k, normalized) ==
    IF k > Len(CATEGORY_KEYS) THEN acc
    ELSE SearchCategories(
             SearchItems(acc, CATEGORY_CACHE[CATEGORY_KEYS[k]], 1, normalized),
             k + 1, normalized)

\* What searchInLoadedData(query) returns.
SearchResults(query) ==
    LET normalized == trim(toLowerCase(query)) IN
    IF normalized = <<>> THEN <<>>
    ELSE SearchCategories([results |-> <<>>, seen |-> {}], 1, normalized).results

\* (item.tmdb?.title || item.name).trim().toLowerCase()
NormalizedTitle(item) == toLowerCase(trim(DisplayTitle(item)))

RECURSIVE UniqueByName(_, _, _, _)
\* The for-loop of deduplicateByName from the i-th item on.
UniqueByName(unique, seen, items, i) ==
    IF i > Len(items) THEN unique
    ELSE IF NormalizedTitle(items[i]) \in seen
    THEN UniqueByName(unique, seen, items, i + 1)
    ELSE UniqueByName(Append(unique, items[i]),
                      seen \cup {NormalizedTitle(items[i])}, items, i + 1)

deduplicateByName(items) == UniqueByName(<<>>, {}, items, 1)

\* The queries typed: "FO", "   ", "net", "zz", "".
Queries == << <<70, 79>>, <<32, 32, 32>>, <<110, 101, 116>>, <<122, 122>>, <<>> >>

\* A search that takes what it finds out of the first category it scans.
searchInLoadedData_Consumes(q) ==
    /\ lastEvent' = EvReturning("searchInLoadedData", 0, q, "results", SearchResults(Queries[q]))
    /\ CATEGORY_CACHE' =
          IF CATEGORY_KEYS = <<>> \/ SearchResults(Queries[q]) = <<>> THEN CATEGORY_CACHE
          ELSE [CATEGORY_CACHE EXCEPT ![CATEGORY_KEYS[1]] = <<>>]
    /\ UNCHANGED <<PAGE_CACHE, CATEGORY_KEYS, LAST_PAGE, HAS_MORE, isBackgroundLoading,
                   stopBackgroundLoading, loops, calls, lastReq, observe, remote, cacheFiles, job>>

\* searchInLoadedData(Queries[q]) as the search of the movies screen calls
\* it: the result goes to the screen, the module's state is only read.
searchInLoadedData(q) ==
    /\ lastEvent' = EvReturning("searchInLoadedData", 0, q, "results", SearchResults(Queries[q]))
    /\ UNCHANGED <<caches, isBackgroundLoading, stopBackgroundLoading, loops, calls,
                   lastReq, observe, remote, cacheFiles, job>>

\* searchMedia(Queries[q]) of mediaService without a list: the search over
\* the loaded data, one item kept per normalized title.
searchMedia(q) ==
    /\ lastEvent' = EvReturning("searchMedia", 0, q, "results",
                                deduplicateByName(SearchResults(Queries[q])))
    /\ UNCHANGED <<caches, isBackgroundLoading, stopBackgroundLoading, loops, calls,
                   lastReq, observe, remote, cacheFiles, job>>

\* ------------------------------------------------------- interactive calls

FreeCall(k) == calls[k] = NoCall /\ \A j \in 1..(k - 1) : calls[j] # NoCall

\* fetchCategoryPage(c, p) called from `op`, up to its first await: a cached
\* page is returned at once, otherwise the request goes out.
FetchCalled(op, c, p) ==
    IF PageCached(c, p)
    THEN /\ calls' = calls
         /\ lastEvent' = Ev(op, c, p, "cachehit")
    ELSE /\ \E k \in CallIds :
               /\ FreeCall(k)
               /\ calls' = [calls EXCEPT ![k] = [op |-> op, cat |-> c, page |-> p]]
         /\ lastEvent' = Ev(op, c, p, "issued")

\* loadNextPage (and its wrapper loadMoreForCategory) up to its first await.
loadNextPage(c) ==
    /\ IF ~categoryHasMore(c)
       THEN /\ calls' = calls
            /\ lastReq' = lastReq
            /\ lastEvent' = Ev("loadNextPage", c, 0, "nomore")
       ELSE /\ FetchCalled("loadNextPage", c, NextPageOf(c))
            /\ lastReq' = Requested(c, NextPageOf(c))
    /\ UNCHANGED <<caches, isBackgroundLoading, stopBackgroundLoading, loops, observe, remote, cacheFiles, job>>

\* A loadCategory that does not look at the merged list.
loadCategory_AlwaysFetches(c) ==
    /\ FetchCalled("loadCategory", c, 1)
    /\ UNCHANGED <<caches, isBackgroundLoading, stopBackgroundLoading, loops, lastReq, observe, remote, cacheFiles, job>>

\* loadCategory of mediaService: the merged list when it is not empty,
\* otherwise page 1.
loadCategory(c) ==
    /\ IF Len(getCategoryItems(c)) > 0
       THEN /\ calls' = calls
            /\ lastEvent' = EvReturning("loadCategory", c, 0, "existing", getCategoryItems(c))
       ELSE FetchCalled("loadCategory", c, 1)
    /\ UNCHANGED <<caches, isBackgroundLoading, stopBackgroundLoading, loops, lastReq, observe, remote, cacheFiles, job>>

\* fetchCategoryPage(cat.id, 1) as loadCatalog of the movies screen calls it.
fetchFirstPage(c) ==
    /\ FetchCalled("fetchCategoryPage", c, 1)
    /\ UNCHANGED <<caches, isBackgroundLoading, stopBackgroundLoading, loops, lastReq, observe, remote, cacheFiles, job>>

\* The network answers an interactive call: fetchCategoryPage finishes and
\* its caller returns.
CallAnswered(k, out) ==
    /\ calls[k] # NoCall
    /\ out \in Outcomes(calls[k].cat, calls[k].page)
    /\ FetchAnswered(calls[k].cat, calls[k].page, out)
    /\ calls' = [calls EXCEPT ![k] = NoCall]
    /\ lastEvent' = Ev("answered", calls[k].cat, calls[k].page, out)
    /\ UNCHANGED <<isBackgroundLoading, stopBackgroundLoading, loops, lastReq, observe, remote, cacheFiles, job>>

\* clearAllCaches: every in-memory map is emptied.
clearAllCaches ==
    /\ PAGE_CACHE' = EmptyMap
    /\ CATEGORY_CACHE' = EmptyMap
    /\ CATEGORY_KEYS' = <<>>
    /\ LAST_PAGE' = EmptyMap
    /\ HAS_MORE' = EmptyMap
    /\ lastReq' = IF observe = "requests"
                  THEN [c \in CATEGORIES |-> Undefined]
                  ELSE lastReq
    /\ lastEvent' = Ev("clearAllCaches", 0, 0, "")
    /\ UNCHANGED <<isBackgroundLoading, stopBackgroundLoading, loops, calls, observe, remote, cacheFiles, job>>

\* ------------------------------------------------------------- deep-loader

\* A while that does not look at the cancellation flag.
WhileCond_IgnoresStop(c, stop) == categoryHasMore(c)

\* while (HAS_MORE.get(cat.id) !== false && !stopBackgroundLoading)
WhileCond(c, stop) == categoryHasMore(c) /\ ~stop

\* The loop from the head of the while of category c to its next await.
\* A next page that is already cached takes `continue` with nothing changed:
\* the loop then spins without ever yielding ("spin").
WhileHead(c, stop) ==
    IF WhileCond(c, stop)
    THEN IF PageCached(c, NextPageOf(c))
         THEN [pc |-> "spin", cat |-> c, page |-> NextPageOf(c)]
         ELSE [pc |-> "fetch", cat |-> c, page |-> NextPageOf(c)]
    ELSE [pc |-> "sleep200", cat |-> c, page |-> 0]

\* A for loop that gives up after the first category.
ForHead_StopsAtFirst(c, stop) ==
    IF c > 1 \/ stop THEN NoLoop ELSE WhileHead(c, stop)

\* The loop from the head of the for at category c to its next await or end.
ForHead(c, stop) ==
    IF c > NumCats \/ stop THEN NoLoop ELSE WhileHead(c, stop)

\* A start() without the guard.
AlreadyRunning_Never == FALSE

\* if (isBackgroundLoading) return;
AlreadyRunning == isBackgroundLoading

FreeLoop(l) == loops[l] = NoLoop /\ \A j \in 1..(l - 1) : loops[j] # NoLoop

\* The history of a loop segment: a page asked for is the category's request.
LoopRan(op, l, before) ==
    /\ lastEvent' = Ev(op, loops'[l].cat, loops'[l].page, loops'[l].pc)
    /\ lastReq' = IF loops'[l].pc = "fetch"
                  THEN Requested(loops'[l].cat, loops'[l].page)
                  ELSE lastReq

startBackgroundLoading ==
    /\ IF AlreadyRunning
       THEN /\ UNCHANGED <<isBackgroundLoading, stopBackgroundLoading, loops, lastReq, observe, remote, cacheFiles, job>>
            /\ lastEvent' = Ev("startBackgroundLoading", 0, 0, "noop")
       ELSE /\ isBackgroundLoading' = TRUE
            /\ stopBackgroundLoading' = FALSE
            /\ \E l \in LoopIds :
                  /\ FreeLoop(l)
                  /\ loops' = [loops EXCEPT ![l] = ForHead(1, FALSE)]
                  /\ LoopRan("startBackgroundLoading", l, loops[l])
    /\ UNCHANGED <<caches, calls, observe, remote, cacheFiles, job>>

\* A stop() that also forgets the cursors.
stopLoading_ResetsCursors ==
    /\ stopBackgroundLoading' = TRUE
    /\ LAST_PAGE' = EmptyMap
    /\ lastEvent' = Ev("stopLoading", 0, 0, "")
    /\ UNCHANGED <<PAGE_CACHE, CATEGORY_CACHE, CATEGORY_KEYS, HAS_MORE, isBackgroundLoading,
                   loops, calls, lastReq, observe, remote, cacheFiles, job>>

\* stopBackgroundLoading = true
stopLoading ==
    /\ stopBackgroundLoading' = TRUE
    /\ lastEvent' = Ev("stopLoading", 0, 0, "")
    /\ UNCHANGED <<caches, isBackgroundLoading, loops, calls, lastReq, observe, remote, cacheFiles, job>>

\* A loader that notifies after every fetch.
Notifications_AfterEveryFetch(newItems) == 1

\* if (newItems.length > 0) { if (onNewData) onNewData(); ... }
Notifications(newItems) == IF Len(newItems) > 0 THEN 1 ELSE 0

\* The loop's fetch is answered: a non-empty page notifies and sleeps 500 ms,
\* an empty result breaks to the 200 ms sleep between categories.  The
\* callback runs after fetchCategoryPage returned, on the caches it left.
LoopFetchAnswered(l, out) ==
    /\ loops[l].pc = "fetch"
    /\ out \in Outcomes(loops[l].cat, loops[l].page)
    /\ FetchAnswered(loops[l].cat, loops[l].page, out)
    /\ loops' = [loops EXCEPT ![l].pc =
                    IF Len(FetchedItems(loops[l].cat, loops[l].page, out)) > 0
                    THEN "sleep500" ELSE "sleep200"]
    /\ lastEvent' = EvNotifying("loopAnswered", loops[l].cat, loops[l].page, out,
                                Notifications(FetchedItems(loops[l].cat, loops[l].page, out)),
                                getCategoryItems(loops[l].cat)')
    /\ UNCHANGED <<isBackgroundLoading, stopBackgroundLoading, calls, lastReq, observe, remote, cacheFiles, job>>

\* isBackgroundLoading = false when the loop has left the for.
RunningAfter(loop) == IF loop = NoLoop THEN FALSE ELSE isBackgroundLoading

\* The 500 ms sleep after a page ends: back to the head of the while.
WakeAfterPage(l) ==
    /\ loops[l].pc = "sleep500"
    /\ loops' = [loops EXCEPT ![l] = WhileHead(loops[l].cat, stopBackgroundLoading)]
    /\ isBackgroundLoading' = RunningAfter(loops'[l])
    /\ LoopRan("wakeAfterPage", l, loops[l])
    /\ UNCHANGED <<caches, stopBackgroundLoading, calls, observe, remote, cacheFiles, job>>

\* The 200 ms sleep after a category ends: on to the next category.
WakeAfterCategory(l) ==
    /\ loops[l].pc = "sleep200"
    /\ loops' = [loops EXCEPT ![l] = ForHead(loops[l].cat + 1, stopBackgroundLoading)]
    /\ isBackgroundLoading' = RunningAfter(loops'[l])
    /\ LoopRan("wakeAfterCategory", l, loops[l])
    /\ UNCHANGED <<caches, stopBackgroundLoading, calls, observe, remote, cacheFiles, job>>

\* A loop that spins in `continue` never gives the thread back.
Spinning == \E l \in LoopIds : loops[l].pc = "spin"

\* ----------------------------------------------------------- specification

Next ==
    /\ ~Spinning
    /\ \/ \E c \in CATEGORIES : loadNextPage(c)
       \/ \E c \in CATEGORIES : loadCategory(c)
       \/ \E c \in CATEGORIES : fetchFirstPage(c)
       \/ \E k \in CallIds : \E out \in Outcomes(calls[k].cat, calls[k].page) :
             CallAnswered(k, out)
       \/ clearAllCaches
       \/ startBackgroundLoading
       \/ stopLoading
       \/ \E l \in LoopIds : \E out \in Outcomes(loops[l].cat, loops[l].page) :
             LoopFetchAnswered(l, out)
       \/ \E l \in LoopIds : WakeAfterPage(l)
       \/ \E l \in LoopIds : WakeAfterCategory(l)

Spec == Init /\ [][Next]_vars

\* The loops of the deep-loader that are alive.
AliveLoops == {l \in LoopIds : loops[l] # NoLoop}

\* One segment of a loop of the deep-loader: the answer to its fetch in
\* flight, or the end of its pending sleep.
LoopStep ==
    \E l \in LoopIds :
        \/ WakeAfterPage(l)
        \/ WakeAfterCategory(l)
        \/ \E out \in Outcomes(loops[l].cat, loops[l].page) : LoopFetchAnswered(l, out)

\* A fetch in flight is answered and a pending sleep ends.
LoopFairness == WF_vars(LoopStep)

\* The screens against every catalog that lists one series on two pages of
\* category 1, each season list sorted and free of duplicates.
SeriesInit ==
    /\ Loaded
    /\ observe = "events"
    /\ \E sa \in SeasonMaps, sb \in SeasonMaps :
          remote = [c \in CATEGORIES |->
                       IF c = 1 THEN SeriesPairPages(c, sa, sb)
                       ELSE PlainPages(c, <<2>>)]

\* Pages are requested from the screens in any order, answered in any way,
\* and the caches are reset at any time.
SeriesNext ==
    \/ \E c \in CATEGORIES : loadNextPage(c)
    \/ \E c \in CATEGORIES : loadCategory(c)
    \/ \E c \in CATEGORIES : fetchFirstPage(c)
    \/ \E k \in CallIds : \E out \in Outcomes(calls[k].cat, calls[k].page) :
          CallAnswered(k, out)
    \/ clearAllCaches

SeriesSpec == SeriesInit /\ [][SeriesNext]_vars

\* ---------------------------------------------------------------- hydration
\* hydrateFromDisk (movies.tsx 275-279) runs before any network fetch and
\* seeds the merged lists and the cursors from the persisted snapshot of
\* each category, has-more included when the snapshot recorded it.

RECURSIVE SetToSeq(_)
\* The categories of a set in the order of CATEGORIES.
SetToSeq(S) ==
    IF S = {} THEN <<>>
    ELSE LET last == CHOOSE c \in S : \A d \in S : d <= c
         IN Append(SetToSeq(S \ {last}), last)

RECURSIVE Snapshot(_, _)
\* The merged list persisted after pages 1..n of a category were fetched.
Snapshot(pages, n) ==
    IF n = 0 THEN <<>>
    ELSE deduplicateItems(Snapshot(pages, n - 1) \o MapItems(pages[n]))

\* The module after hydration: category c is restored up to page upto[c]
\* (0: nothing persisted), with has-more when known[c].
Hydrated(upto, known) ==
    LET restored == {c \in CATEGORIES : upto[c] > 0} IN
    /\ PAGE_CACHE = EmptyMap
    /\ CATEGORY_CACHE = [c \in restored |-> Snapshot(remote[c], upto[c])]
    /\ CATEGORY_KEYS = SetToSeq(restored)
    /\ LAST_PAGE = [c \in restored |-> upto[c]]
    /\ HAS_MORE = [c \in {d \in restored : known[d]} |->
                      ~IsTailPage(MapItems(remote[c][upto[c]]))]
    /\ isBackgroundLoading = FALSE
    /\ stopBackgroundLoading = FALSE
    /\ loops = [l \in LoopIds |-> NoLoop]
    /\ calls = [k \in CallIds |-> NoCall]
    /\ lastReq = [c \in CATEGORIES |-> 0]
    /\ lastEvent = NoEvent
    /\ DownloadsIdle

HydratedInit ==
    /\ observe = "events"
    /\ \E shape \in [CATEGORIES -> PageShapes] :
          /\ remote = [c \in CATEGORIES |-> PlainPages(c, shape[c])]
          /\ \E upto \in [CATEGORIES -> 0..2], known \in [CATEGORIES -> BOOLEAN] :
                /\ \A c \in CATEGORIES : upto[c] <= Len(shape[c])
                /\ Hydrated(upto, known)

\* The screens after a relaunch.
HydratedSpec == HydratedInit /\ [][SeriesNext]_vars

\* The fair runs of the program, with the request history observed.
LiveInit == Init /\ observe = "requests"
LiveSpec == LiveInit /\ [][Next]_vars /\ LoopFairness

\* ---------------------------------------------------------- category screen
\* app/category/[id].tsx: the screen calls loadCategory when it mounts and
\* shows the list once that call returned; reaching the end of the list
\* calls loadMoreForCategory unless a loadMore is pending or hasMore is false.

NothingInFlight == \A k \in CallIds : calls[k] = NoCall

\* useEffect(load): loadCategory(id).
ScreenLoad(c) == NothingInFlight /\ loadCategory(c)

\* loadMore: if (loadingMore || !hasMore || !id) return; loadMoreForCategory(id).
ScreenLoadMore(c) ==
    /\ NothingInFlight
    /\ getCategoryItems(c) # <<>>
    /\ categoryHasMore(c)
    /\ loadNextPage(c)

\* The server answers with the file, or 404 when there is none.
FileOrNotFound(c, p) == Outcomes(c, p) \cap {"ok", "notfound"}

\* One category screen after another against a server that answers every
\* request, for every catalog of a series pair and plain categories.
PagingInit ==
    /\ Loaded
    /\ observe = "events"
    /\ \E sa \in SeasonMaps, sb \in SeasonMaps :
       \E shape \in [CATEGORIES \ {1} -> PageShapes] :
          remote = [c \in CATEGORIES |->
                       IF c = 1 THEN SeriesPairPages(c, sa, sb)
                       ELSE PlainPages(c, shape[c])]

PagingNext ==
    \/ \E c \in CATEGORIES : ScreenLoad(c)
    \/ \E c \in CATEGORIES : ScreenLoadMore(c)
    \/ \E k \in CallIds : \E out \in FileOrNotFound(calls[k].cat, calls[k].page) :
          CallAnswered(k, out)

PagingSpec == PagingInit /\ [][PagingNext]_vars

\* ------------------------------------------------------------ movies screen
\* app/(tabs)/movies.tsx, loadCatalog: page 1 of the relevant categories is
\* fetched (the adult categories are left out while locked), then the
\* deep-loader is started over all of CATEGORIES.  Nothing stops the loader
\* and the server answers every request.

DeepLoadInit ==
    /\ Loaded
    /\ observe = "events"
    /\ \E shape \in [CATEGORIES -> PageShapes] :
          remote = [c \in CATEGORIES |-> PlainPages(c, shape[c])]

DeepLoadNext ==
    /\ ~Spinning
    /\ \/ \E c \in CATEGORIES : fetchFirstPage(c)
       \/ \E k \in CallIds : \E out \in FileOrNotFound(calls[k].cat, calls[k].page) :
             CallAnswered(k, out)
       \/ startBackgroundLoading
       \/ \E l \in LoopIds : \E out \in FileOrNotFound(loops[l].cat, loops[l].page) :
             LoopFetchAnswered(l, out)
       \/ \E l \in LoopIds : WakeAfterPage(l)
       \/ \E l \in LoopIds : WakeAfterCategory(l)

DeepLoadSpec == DeepLoadInit /\ [][DeepLoadNext]_vars

\* The category screen's loadMore (loadNextPage) and the deep-loader advance
\* the categories side by side; the server answers every request.
AdvanceNext ==
    /\ ~Spinning
    /\ \/ \E c \in CATEGORIES : loadNextPage(c)
       \/ \E k \in CallIds : \E out \in FileOrNotFound(calls[k].cat, calls[k].page) :
             CallAnswered(k, out)
       \/ startBackgroundLoading
       \/ \E l \in LoopIds : \E out \in FileOrNotFound(loops[l].cat, loops[l].page) :
             LoopFetchAnswered(l, out)
       \/ \E l \in LoopIds : WakeAfterPage(l)
       \/ \E l \in LoopIds : WakeAfterCategory(l)

AdvanceSpec == DeepLoadInit /\ [][AdvanceNext]_vars

\* loadCatalog against a network that can fail in every way: page-1 fetches
\* and the deep-loader, never stopped; every fetch is answered and every
\* sleep ends.
FaultyLoadNext ==
    /\ ~Spinning
    /\ \/ \E c \in CATEGORIES : fetchFirstPage(c)
       \/ \E k \in CallIds : \E out \in Outcomes(calls[k].cat, calls[k].page) :
             CallAnswered(k, out)
       \/ startBackgroundLoading
       \/ \E l \in LoopIds : \E out \in Outcomes(loops[l].cat, loops[l].page) :
             LoopFetchAnswered(l, out)
       \/ \E l \in LoopIds : WakeAfterPage(l)
       \/ \E l \in LoopIds : WakeAfterCategory(l)

FaultyLoadSpec == DeepLoadInit /\ [][FaultyLoadNext]_vars /\ LoopFairness

\* The deep-loader racing the interactive fetches of the screens
\* (loadCategory, loadNextPage, page-1 fetches), every answer possible; the
\* caches are not reset and the loader is not stopped; every fetch of the
\* loader is answered and every sleep ends.
RacingInit ==
    /\ Loaded
    /\ observe = "events"
    /\ remote = [c \in CATEGORIES |->
                    IF c = 1 THEN PlainPages(c, <<PAGE_SIZE, PAGE_SIZE, PAGE_SIZE - 1>>)
                    ELSE PlainPages(c, <<PAGE_SIZE>>)]

RacingNext ==
    /\ ~Spinning
    /\ \/ \E c \in CATEGORIES : loadNextPage(c)
       \/ \E c \in CATEGORIES : loadCategory(c)
       \/ \E c \in CATEGORIES : fetchFirstPage(c)
       \/ \E k \in CallIds : \E out \in Outcomes(calls[k].cat, calls[k].page) :
             CallAnswered(k, out)
       \/ startBackgroundLoading
       \/ \E l \in LoopIds : \E out \in Outcomes(loops[l].cat, loops[l].page) :
             LoopFetchAnswered(l, out)
       \/ \E l \in LoopIds : WakeAfterPage(l)
       \/ \E l \in LoopIds : WakeAfterCategory(l)

RacingSpec == RacingInit /\ [][RacingNext]_vars /\ LoopFairness

\* ------------------------------------------------------- download service
\* One call of the download service runs at a time (downloadAllCategories
\* awaits each category).  A file of the cache directory is absent, holds
\* the items written by an earlier download ("items"), holds text that
\* JSON.parse rejects ("garbled"), or cannot be read ("unreadable").

CorruptKinds == {"garbled", "unreadable"}
FsOutcomes == {"ok", "rejects"}

\* What a call returns to its caller: a list, or an exception.
Returned(job0, items) == [job0 EXCEPT !.pc = "returned", !.items = items]
Thrown(job0) == [job0 EXCEPT !.pc = "returned", !.threw = TRUE]

NewJob(op, c) ==
    [op |-> op, cat |-> c, pc |-> "called", found |-> "", temp |-> <<>>,
     items |-> <<>>, threw |-> FALSE]

\* The files the server holds for a category: [], one object, two objects,
\* and a file of FAST_LIMIT characters or more.
CategoryFiles ==
    {ArrayText(objects) : objects \in UNION {[1..n -> ObjectTexts] : n \in 0..MaxObjects}}

StreamingUnchanged ==
    UNCHANGED <<caches, isBackgroundLoading, stopBackgroundLoading, loops, calls,
                remote, observe, lastReq, lastEvent>>

\* downloadCategory(c) up to its first await.
downloadCategory(c) ==
    /\ job = NoJob
    /\ job' = NewJob("downloadCategory", c)
    /\ UNCHANGED cacheFiles
    /\ StreamingUnchanged

\* downloadCategory, lines 61-76: the cache directory and the file are
\* looked up (fs), a file that exists is read and parsed; when that throws
\* the file is deleted (del) and the download goes on.
CacheChecked(fs, del) ==
    LET c == job.cat
        file == cacheFiles[c]
        seen == [job EXCEPT !.found = file.kind]
    IN
    /\ job.op = "downloadCategory" /\ job.pc = "called"
    /\ IF fs = "rejects"
       THEN job' = Returned(job, <<>>) /\ UNCHANGED cacheFiles
       ELSE IF file.kind = "absent"
       THEN job' = [seen EXCEPT !.pc = "download"] /\ UNCHANGED cacheFiles
       ELSE IF file.kind = "items"
       THEN job' = Returned(seen, file.items) /\ UNCHANGED cacheFiles
       ELSE IF del = "rejects"
       THEN job' = Returned(seen, <<>>) /\ UNCHANGED cacheFiles
       ELSE /\ job' = [seen EXCEPT !.pc = "download"]
            /\ cacheFiles' = [cacheFiles EXCEPT ![c] = NoFile]
    /\ StreamingUnchanged

\* downloadCategory, lines 78-106: the download ends with status 200 and the
\* file `content` in the temporary file, or it fails and the catch returns [].
Downloaded(ok, content) ==
    /\ job.op = "downloadCategory" /\ job.pc = "download"
    /\ job' = IF ok THEN [job EXCEPT !.pc = "process", !.temp = content]
              ELSE Returned(job, <<>>)
    /\ UNCHANGED cacheFiles
    /\ StreamingUnchanged

\* if (fileSize < 15 * 1024 * 1024) extractItemsFast else extractItemsChunked
ExtractedItems(content) ==
    IF Len(content) < FAST_LIMIT
    THEN extractItemsFast(content, MAX_ITEMS_PER_CATEGORY)
    ELSE extractItemsChunked(content, CHUNK_SIZE, MAX_ITEMS_PER_CATEGORY)

\* downloadCategory, lines 108-135: the items are cut out of the temporary
\* file and, when there are any, written to the cache file (fs); then the
\* temporary file is deleted (del).  Either step may reject, and the catch
\* returns [].
Processed(fs, del) ==
    LET items == ExtractedItems(job.temp)
        written == [cacheFiles EXCEPT ![job.cat] = [kind |-> "items", items |-> items]]
    IN
    /\ job.op = "downloadCategory" /\ job.pc = "process"
    /\ IF items # <<>> /\ fs = "rejects"
       THEN job' = Returned(job, <<>>) /\ UNCHANGED cacheFiles
       ELSE /\ job' = IF del = "rejects" THEN Returned(job, <<>>) ELSE Returned(job, items)
            /\ cacheFiles' = IF items # <<>> THEN written ELSE cacheFiles
    /\ StreamingUnchanged

\* loadCachedCategory(c) up to its first await.
loadCachedCategory(c) ==
    /\ job = NoJob
    /\ job' = NewJob("loadCachedCategory", c)
    /\ UNCHANGED cacheFiles
    /\ StreamingUnchanged

\* A loadCachedCategory without its try/catch.
CachedRead_NoCatch(job0, file, fs) ==
    IF fs = "rejects" \/ file.kind \in CorruptKinds THEN Thrown(job0)
    ELSE Returned(job0, file.items)

\* loadCachedCategory, lines 352-361: the items of the file; [] when there
\* is no file or when looking it up, reading it or parsing it throws.
CachedRead(job0, file, fs) ==
    IF fs = "ok" /\ file.kind = "items" THEN Returned(job0, file.items)
    ELSE Returned(job0, <<>>)

CachedAnswered(fs) ==
    /\ job.op = "loadCachedCategory" /\ job.pc = "called"
    /\ job' = CachedRead([job EXCEPT !.found = cacheFiles[job.cat].kind],
                         cacheFiles[job.cat], fs)
    /\ UNCHANGED cacheFiles
    /\ StreamingUnchanged

\* The caller takes the result.
JobDone ==
    /\ job # NoJob /\ job.pc = "returned"
    /\ job' = NoJob
    /\ UNCHANGED cacheFiles
    /\ StreamingUnchanged

\* The file of a category is damaged on disk, or can no longer be read.
FileDamaged(c, kind) ==
    /\ cacheFiles[c].kind = "items"
    /\ cacheFiles' = [cacheFiles EXCEPT ![c] = [kind |-> kind, items |-> <<>>]]
    /\ UNCHANGED job
    /\ StreamingUnchanged

DownloadInit ==
    /\ Loaded
    /\ observe = "events"
    /\ remote = [c \in CATEGORIES |-> PlainPages(c, <<2>>)]

DownloadNext ==
    \/ \E c \in CATEGORIES : downloadCategory(c)
    \/ \E fs \in FsOutcomes, del \in FsOutcomes : CacheChecked(fs, del)
    \/ \E ok \in BOOLEAN, content \in CategoryFiles : Downloaded(ok, content)
    \/ \E fs \in FsOutcomes, del \in FsOutcomes : Processed(fs, del)
    \/ \E c \in CATEGORIES : loadCachedCategory(c)
    \/ \E fs \in FsOutcomes : CachedAnswered(fs)
    \/ JobDone
    \/ \E c \in CATEGORIES, kind \in CorruptKinds : FileDamaged(c, kind)

DownloadSpec == DownloadInit /\ [][DownloadNext]_vars

\* ----------------------------------------------------------- the extractors
\* The two extractors applied to the same file: a well-formed array of up to
\* MaxObjects objects, read with one of the chunk sizes (the last is larger
\* than any file) and one of the item limits.
ChunkSizes == {1, 2, 3, 5, CHUNK_SIZE, 40}
ItemLimits == {1, 2, MAX_ITEMS_PER_CATEGORY}
NotRun == [run |-> FALSE, items |-> <<>>]
Ran(items) == [run |-> TRUE, items |-> items]

ExtractInit ==
    /\ StreamingLoaded
    /\ observe = "events"
    /\ remote = [c \in CATEGORIES |-> PlainPages(c, <<2>>)]
    /\ cacheFiles = [c \in CATEGORIES |-> NoFile]
    /\ \E content \in CategoryFiles, chunkSize \in ChunkSizes, maxItems \in ItemLimits :
          job = [op |-> "extract", content |-> content, chunkSize |-> chunkSize,
                 maxItems |-> maxItems, fast |-> NotRun, chunked |-> NotRun]

RunFast ==
    /\ job.op = "extract" /\ ~job.fast.run
    /\ job' = [job EXCEPT !.fast = Ran(extractItemsFast(job.content, job.maxItems))]
    /\ UNCHANGED cacheFiles
    /\ StreamingUnchanged

RunChunked ==
    /\ job.op = "extract" /\ ~job.chunked.run
    /\ job' = [job EXCEPT !.chunked =
                  Ran(extractItemsChunked(job.content, job.chunkSize, job.maxItems))]
    /\ UNCHANGED cacheFiles
    /\ StreamingUnchanged

ExtractNext == RunFast \/ RunChunked

ExtractSpec == ExtractInit /\ [][ExtractNext]_vars

\* ------------------------------------------------------------- search screen
\* The movies screen searches while pages are requested and answered, the
\* caches are reset at times; the server answers with the file or 404.

SearchInit ==
    /\ Loaded
    /\ observe = "events"
    /\ remote = [c \in CATEGORIES |-> TitledPages(c)]

SearchNext ==
    \/ \E c \in CATEGORIES : fetchFirstPage(c)
    \/ \E c \in CATEGORIES : loadNextPage(c)
    \/ \E k \in CallIds : \E out \in FileOrNotFound(calls[k].cat, calls[k].page) :
          CallAnswered(k, out)
    \/ clearAllCaches
    \/ \E q \in DOMAIN Queries : searchInLoadedData(q)
    \/ \E q \in DOMAIN Queries : searchMedia(q)

SearchSpec == SearchInit /\ [][SearchNext]_vars

\* -------------------------------------------------------------- properties

\* The effective key of the specification: the external-metadata id when
\* the item has one, the local id otherwise.
HasTmdbId(item) == item.tmdb.present /\ item.tmdb.id # Undefined
SameEffectiveKey(a, b) ==
    /\ HasTmdbId(a) = HasTmdbId(b)
    /\ IF HasTmdbId(a) THEN a.tmdb.id = b.tmdb.id ELSE a.id = b.id

\* The segment that ran last was the answer to a fetch.
AnswerEvent(ev) == ev.op \in {"answered", "loopAnswered"}
\* The segment that ran last asked for a category's next page.
NextPageEvent(ev) ==
    \/ ev.op = "loadNextPage" /\ ev.res \in {"issued", "cachehit"}
    \/ ev.op \in {"startBackgroundLoading", "wakeAfterPage", "wakeAfterCategory"}
       /\ ev.res = "fetch"
\* This step, a next-page request of category c goes out.
NextPageStep(c) ==
    \/ \E k \in CallIds :
          calls[k] = NoCall /\ calls'[k].op = "loadNextPage" /\ calls'[k].cat = c
    \/ \E l \in LoopIds :
          loops[l].pc # "fetch" /\ loops'[l].pc = "fetch" /\ loops'[l].cat = c

\* C1: no merged list of a category holds two items with the same
\* effective key.
C1_NoDuplicateKeys ==
    \A c \in DOMAIN CATEGORY_CACHE :
        \A i, j \in 1..Len(CATEGORY_CACHE[c]) :
            i # j => ~SameEffectiveKey(CATEGORY_CACHE[c][i], CATEGORY_CACHE[c][j])

\* Two pages of a category that list the same key are both merged.
C1_Witness ==
    \E c \in CATEGORIES :
        /\ PageCached(c, 1) /\ PageCached(c, 2)
        /\ \E i \in 1..Len(PAGE_CACHE[<<c, 1>>]), j \in 1..Len(PAGE_CACHE[<<c, 2>>]) :
              SameEffectiveKey(PAGE_CACHE[<<c, 1>>][i], PAGE_CACHE[<<c, 2>>][j])
        /\ Len(getCategoryItems(c)) > PAGE_SIZE

\* C2: merging is idempotent: the answer to a second fetch of a page that is
\* already merged leaves the merged list of its category as it was.
C2_RefoldChangesNothing ==
    [][(/\ AnswerEvent(lastEvent') /\ lastEvent'.res = "ok"
        /\ PageCached(lastEvent'.cat, lastEvent'.page))
       => CATEGORY_CACHE' = CATEGORY_CACHE]_vars

\* C3: at most one deep-loader loop is alive, and a start() issued while one
\* is alive starts no second one.
C3_AtMostOneLoop ==
    /\ Cardinality(AliveLoops) <= 1
    /\ (lastEvent.op = "startBackgroundLoading" /\ lastEvent.res = "noop")
          => Cardinality(AliveLoops) = 1

\* start() has just returned at once because a loop is alive.
C3_Witness ==
    /\ lastEvent.op = "startBackgroundLoading" /\ lastEvent.res = "noop"
    /\ Cardinality(AliveLoops) = 1

\* C4: stop() followed immediately by start() gives a fresh Running state:
\* one loop runs and the cancellation flag is cleared.
C4_StopThenStartIsFresh ==
    [][(lastEvent.op = "stopLoading" /\ lastEvent'.op = "startBackgroundLoading")
       => (/\ isBackgroundLoading' /\ ~stopBackgroundLoading'
           /\ Cardinality(AliveLoops') = 1)]_vars

\* C5: once stop() is called on a running loader, its loop asks for no new
\* page and the loader becomes idle.
C5_StopHalts ==
    /\ [][(stopBackgroundLoading /\ isBackgroundLoading)
          => \A l \in LoopIds : ~(loops[l].pc # "fetch" /\ loops'[l].pc = "fetch")]_vars
    /\ (stopBackgroundLoading /\ isBackgroundLoading) ~> ~isBackgroundLoading

\* stop() was called while the loop has a fetch in flight.
C5_Witness ==
    /\ stopBackgroundLoading /\ isBackgroundLoading
    /\ \E l \in LoopIds : loops[l].pc = "fetch"

\* C6: stop() changes the cancellation flag and nothing else, and the answer
\* to a fetch the loop had in flight is still merged after stop().
C6_StopOnlySetsFlag ==
    /\ [][(~stopBackgroundLoading /\ stopBackgroundLoading')
          => UNCHANGED <<caches, isBackgroundLoading, loops, calls>>]_vars
    /\ [][(/\ stopBackgroundLoading
           /\ lastEvent'.op = "loopAnswered" /\ lastEvent'.res = "ok")
          => LET c == lastEvent'.cat
                 p == lastEvent'.page
                 page == MapItems(RemotePages(c)[p])
             IN /\ (PAGE_CACHE')[<<c, p>>] = page
                /\ \A i \in 1..Len(page) :
                      \E j \in 1..Len((CATEGORY_CACHE')[c]) :
                          KeyOf((CATEGORY_CACHE')[c][j]) = KeyOf(page[i])]_vars

\* After stop(), the loop's fetch has been answered and its page is cached.
C6_Witness ==
    /\ stopBackgroundLoading
    /\ lastEvent.op = "loopAnswered" /\ lastEvent.res = "ok"
    /\ PageCached(lastEvent.cat, lastEvent.page)

\* C7: the next page asked for is the last fetched page + 1, and page 1 when
\* no page of the category was ever fetched.
C7_NextPageIsLastPlusOne ==
    NextPageEvent(lastEvent)
        => lastEvent.page = LastPageOr(lastEvent.cat, 0) + 1

\* C8: every next-page request of a category asks for the page one
\* greater than the request before it, the first for page 1.
C8_EachRequestOneGreater ==
    [][\A c \in CATEGORIES :
          (observe = "requests" /\ NextPageStep(c) /\ lastReq[c] # Undefined)
              => lastReq'[c] = lastReq[c] + 1]_vars

\* C9: has-more of a category that reads false reads false in every later
\* state, until the caches are reset.
C9_HasMoreStaysFalse ==
    [][\A c \in CATEGORIES :
          (~categoryHasMore(c) /\ categoryHasMore(c)')
              => (/\ PAGE_CACHE' = EmptyMap /\ CATEGORY_CACHE' = EmptyMap
                  /\ LAST_PAGE' = EmptyMap /\ HAS_MORE' = EmptyMap)]_vars

\* C10: after a fetch is answered 404, or with a page of fewer items than
\* the page size (a short list, or the empty list of "notlist"),
\* categoryHasMore of its category is false.
C10_TerminalDetection ==
    (/\ AnswerEvent(lastEvent)
     /\ \/ lastEvent.res \in {"notfound", "notlist"}
        \/ /\ lastEvent.res = "ok"
           /\ Len(RemotePages(lastEvent.cat)[lastEvent.page]) < PAGE_SIZE)
        => ~categoryHasMore(lastEvent.cat)

\* A short page has just been fetched.
C10_Witness ==
    /\ AnswerEvent(lastEvent) /\ lastEvent.res = "ok"
    /\ Len(RemotePages(lastEvent.cat)[lastEvent.page]) < PAGE_SIZE
    /\ ~categoryHasMore(lastEvent.cat)

\* C11: a fetch that fails at the network level (the request rejects, or
\* the server answers 5xx) leaves has-more and the cursor of its category
\* as they were and merges nothing.
C11_NetworkFailureLeavesCursor ==
    [][(AnswerEvent(lastEvent') /\ lastEvent'.res \in {"neterr", "http5xx"})
       => UNCHANGED <<HAS_MORE, LAST_PAGE, CATEGORY_CACHE, PAGE_CACHE>>]_vars

\* C12: a fetch whose body cannot be parsed or is not a list of records
\* sets has-more of its category to false and leaves the merged list and
\* the cursor as they were.
C12_MalformedBodyIsTerminal ==
    [][(AnswerEvent(lastEvent') /\ lastEvent'.res \in {"badjson", "notlist"})
       => (/\ lastEvent'.cat \in DOMAIN HAS_MORE'
           /\ (HAS_MORE')[lastEvent'.cat] = FALSE
           /\ UNCHANGED <<LAST_PAGE, CATEGORY_CACHE>>)]_vars

RECURSIVE PagesUpTo(_, _)
\* The items of pages 1..p of category c, in page order.
PagesUpTo(c, p) ==
    IF p = 0 THEN <<>> ELSE PagesUpTo(c, p - 1) \o MapItems(RemotePages(c)[p])

\* Every page of category c is full except the last, which is short, and
\* no two of its records have the same effective key.
FullThenShort(c) ==
    LET pages == RemotePages(c)
        N == Len(pages)
        all == PagesUpTo(c, N)
    IN /\ N >= 1
       /\ \A p \in 1..(N - 1) : Len(pages[p]) = PAGE_SIZE
       /\ Len(pages[N]) \in 1..(PAGE_SIZE - 1)
       /\ \A i, j \in 1..Len(all) : i # j => ~SameEffectiveKey(all[i], all[j])

\* C13: on a category of N pages, all full but the short last one, with
\* distinct keys, loadCategory and then loadMore leave after the p-th fetch
\* the items of pages 1..p as the merged list, with has-more true exactly
\* while p < N.
C13_PagingAccumulates ==
    \A c \in CATEGORIES :
        FullThenShort(c) =>
            LET p == LastPageOr(c, 0) IN
            /\ getCategoryItems(c) = PagesUpTo(c, p)
            /\ (categoryHasMore(c) <=> p < Len(RemotePages(c)))

\* Two full pages and the short third one have all been fetched: the merged
\* list holds the items of the three pages and has-more is false.
C13_Witness ==
    \E c \in CATEGORIES :
        /\ FullThenShort(c) /\ Len(RemotePages(c)) = 3
        /\ LastPageOr(c, 0) = 3 /\ ~categoryHasMore(c)
        /\ Len(getCategoryItems(c)) = 3 * PAGE_SIZE - 1

\* The keys of a list of items.
Keys(items) == {KeyOf(items[i]) : i \in 1..Len(items)}

\* The deep-loader has just left its for loop.
LoaderCompleted == lastEvent.op = "wakeAfterCategory" /\ lastEvent.res = "none"

\* C14: when the deep-loader completes, having never been stopped and with
\* every fetch answered by the file or by 404, every category has has-more
\* false and its merged list holds the items of every remote page.
C14_DeepLoadPopulatesAll ==
    LoaderCompleted =>
        \A c \in CATEGORIES :
            /\ ~categoryHasMore(c)
            /\ \A p \in 1..Len(RemotePages(c)) :
                  Keys(MapItems(RemotePages(c)[p])) \subseteq Keys(getCategoryItems(c))

\* The highest page number of category c in PAGE_CACHE, 0 when there is none.
HighestCached(c) ==
    LET ps == {key[2] : key \in {k \in DOMAIN PAGE_CACHE : k[1] = c}}
    IN IF ps = {} THEN 0 ELSE CHOOSE p \in ps : \A q \in ps : q <= p

\* C15: within one category pages are merged in increasing page-number
\* order: a page is never merged after a page with a higher number of the
\* same category, under any interleaving of interactive requests and the
\* deep-loader.
C15_PagesMergedInOrder ==
    [][(AnswerEvent(lastEvent') /\ lastEvent'.res = "ok")
       => HighestCached(lastEvent'.cat) <= lastEvent'.page]_vars

\* The merged list one loader builds by fetching the cached pages of c up
\* to page p one after the other.
RECURSIVE SequentialMerge(_, _)
SequentialMerge(c, p) ==
    IF p = 0 THEN <<>>
    ELSE IF PageCached(c, p)
    THEN deduplicateItems(SequentialMerge(c, p - 1) \o PAGE_CACHE[<<c, p>>])
    ELSE SequentialMerge(c, p - 1)

\* C16: when loadNextPage and the deep-loader advance a category side by
\* side, the merged list, the cursor and the has-more flag are those of one
\* sequential loader that fetched the same pages: the list is the pages
\* merged in order, the cursor is the highest page fetched, and has-more is
\* false once the highest page fetched is a short one.
C16_ConcurrentEqualsSequential ==
    \A c \in CATEGORIES :
        LET top == HighestCached(c) IN
        top > 0 =>
            /\ getCategoryItems(c) = SequentialMerge(c, top)
            /\ LastPageOr(c, 0) = top
            /\ (IsTailPage(PAGE_CACHE[<<c, top>>]) => ~categoryHasMore(c))

\* The deep-loader's fetch for category c has just failed or come back empty.
LoopFetchFailed(c) ==
    lastEvent.op = "loopAnswered" /\ lastEvent.cat = c /\ lastEvent.res # "ok"

\* C17: a fetch of the deep-loader that fails or returns empty for a
\* category ends only that category's inner loop: the loop is then in the
\* pause after that category, still running; it goes on to every later
\* category in order, where it fetches the next page when there is more,
\* and the loader runs to its end.
C17_FailureEndsOnlyItsCategory ==
    /\ [](\A c \in CATEGORIES : LoopFetchFailed(c) =>
             /\ isBackgroundLoading
             /\ \E l \in LoopIds : loops[l].pc = "sleep200" /\ loops[l].cat = c)
    /\ [][\A l \in LoopIds :
             (loops'[l].cat # loops[l].cat /\ loops'[l] # NoLoop)
                => /\ loops'[l].cat = loops[l].cat + 1
                   /\ (categoryHasMore(loops'[l].cat)
                         => /\ loops'[l].pc = "fetch"
                            /\ loops'[l].page = NextPageOf(loops'[l].cat))]_vars
    /\ \A c \in CATEGORIES : \A d \in CATEGORIES :
          d > c => (LoopFetchFailed(c) ~> \E l \in LoopIds : loops[l].cat = d)
    /\ \A c \in CATEGORIES : LoopFetchFailed(c) ~> ~isBackgroundLoading

\* The loader fetches in a later category after every fetch for an earlier
\* one failed by exception.
C17_Witness ==
    \E l \in LoopIds : \E c \in CATEGORIES :
        /\ loops[l].pc = "fetch" /\ loops[l].cat > c
        /\ ~MapHas(HAS_MORE, c)
        /\ Len(RemotePages(loops[l].cat)) > 1

\* The episode numbers of a season list, in its order, and as a set.
EpisodeList(eps) == [i \in 1..Len(eps) |-> eps[i].episode]
EpisodeSet(eps) == {eps[i].episode : i \in 1..Len(eps)}
\* The episodes of season s of an item, none when it has no such season.
SeasonOf(item, s) ==
    IF s \in DOMAIN item.episodes.seasons THEN item.episodes.seasons[s] ELSE <<>>
NoEpisodeTwice(eps) ==
    \A i \in 1..Len(eps) : \A j \in 1..Len(eps) : i # j => eps[i].episode # eps[j].episode
\* The first record of page p of category c, as an item.
FirstOfPage(c, p) == MapItems(RemotePages(c)[p])[1]
\* Pages 1 and 2 of c each open with a series record carrying episodes, the
\* two under one effective key, and both pages are merged.
SeriesPairMerged(c) ==
    /\ Len(RemotePages(c)) >= 2
    /\ \A p \in 1..2 :
          /\ PageCached(c, p)
          /\ FirstOfPage(c, p).type = "tv"
          /\ FirstOfPage(c, p).episodes.present
    /\ SameEffectiveKey(FirstOfPage(c, 1), FirstOfPage(c, 2))

StrictlyAscending(eps) ==
    \A i \in 1..(Len(eps) - 1) : eps[i].episode < eps[i + 1].episode
WellFormedSeasons(item) ==
    item.episodes.present =>
        \A s \in DOMAIN item.episodes.seasons : StrictlyAscending(item.episodes.seasons[s])
\* Every record the server lists has well-formed season lists.
RemoteWellFormed ==
    \A c \in CATEGORIES : \A p \in 1..Len(RemotePages(c)) :
        \A i \in 1..Len(RemotePages(c)[p]) : WellFormedSeasons(RemotePages(c)[p][i])

\* C19: when every fetched record's own season lists are sorted by episode
\* number and free of duplicates, then after any sequence of page merges
\* every season of every item of every merged list is sorted ascending by
\* episode number with no episode number twice.
C19_SeasonsStayWellFormed ==
    RemoteWellFormed =>
        \A c \in CATEGORIES : \A i \in 1..Len(getCategoryItems(c)) :
            WellFormedSeasons(getCategoryItems(c)[i])

\* A merged season 1, 2, 3 whose first episode came from the record merged
\* second: the merge pushed it behind 2, 3 and the sort moved it to the front.
C19_Witness ==
    /\ RemoteWellFormed
    /\ \E c \in CATEGORIES : \E i \in 1..Len(getCategoryItems(c)) :
          LET item == getCategoryItems(c)[i] IN
          /\ item.episodes.present
          /\ \E s \in DOMAIN item.episodes.seasons :
                LET eps == item.episodes.seasons[s] IN
                /\ EpisodeList(eps) = <<1, 2, 3>>
                /\ eps[1].id # eps[2].id
                /\ eps[2].id = eps[3].id

\* The effective keys of a list: the external-metadata id of an item that
\* has one, its local id otherwise.
EffectiveKeys(items) ==
    {<<HasTmdbId(items[i]), KeyOf(items[i])>> : i \in 1..Len(items)}

\* C20: a category's merged list is cleared only by the cache reset: in
\* every other step (page requests, answers of any kind, loadCategory,
\* loadNextPage, start and stop of the deep-loader and its steps) the set
\* of effective keys of every category's merged list does not shrink.
C20_OnlyResetShrinks ==
    [][\/ clearAllCaches
       \/ \A c \in CATEGORIES :
             EffectiveKeys(getCategoryItems(c)) \subseteq EffectiveKeys(getCategoryItems(c)')]_vars

\* A fetch has just failed for a category whose merged list holds items.
C20_Witness ==
    /\ AnswerEvent(lastEvent)
    /\ lastEvent.res # "ok"
    /\ getCategoryItems(lastEvent.cat) # <<>>

\* C21: when the merged list of a category is not empty, restored by
\* hydration before any network call for instance, loadCategory returns
\* exactly that list and sends no request.
C21_LoadCategoryReturnsExisting ==
    [][\A c \in CATEGORIES :
          (/\ lastEvent'.op = "loadCategory"
           /\ lastEvent'.cat = c
           /\ getCategoryItems(c) # <<>>)
          => /\ lastEvent'.list = getCategoryItems(c)
             /\ calls' = calls
             /\ UNCHANGED caches]_vars

\* loadCategory has just answered from a hydrated list, nothing fetched yet.
C21_Witness ==
    /\ lastEvent.op = "loadCategory"
    /\ PAGE_CACHE = EmptyMap
    /\ NothingInFlight
    /\ Len(getCategoryItems(lastEvent.cat)) = 2 * PAGE_SIZE
    /\ lastEvent.list = getCategoryItems(lastEvent.cat)

\* The segment that ran last was a search; its normalized query.
SearchEvent(ev) == ev.op \in {"searchInLoadedData", "searchMedia"}
NormalizedQuery(ev) == trim(toLowerCase(Queries[ev.page]))
\* The item's display title, lower-cased, contains the normalized query.
Matches(item, normalized) == includes(toLowerCase(DisplayTitle(item)), normalized)
\* The items of the merge index.
LoadedItems ==
    UNION {{CATEGORY_CACHE[c][i] : i \in 1..Len(CATEGORY_CACHE[c])} : c \in DOMAIN CATEGORY_CACHE}

\* C22: a search with a query that is empty after trimming returns nothing;
\* any other search returns only items of the merge index whose display
\* title, lower-cased, contains the trimmed lower-cased query, and every
\* matching title of every loaded category is the title of some result.
C22_SearchFindsEveryTitle ==
    SearchEvent(lastEvent) =>
        LET normalized == NormalizedQuery(lastEvent)
            results == lastEvent.list
        IN IF normalized = <<>> THEN results = <<>>
           ELSE /\ \A i \in 1..Len(results) :
                      results[i] \in LoadedItems /\ Matches(results[i], normalized)
                /\ \A item \in LoadedItems :
                      Matches(item, normalized) =>
                          \E i \in 1..Len(results) :
                              NormalizedTitle(results[i]) = NormalizedTitle(item)

\* No two items of the list have the same normalized display title.
DistinctTitles(items) ==
    \A i \in 1..Len(items) : \A j \in 1..Len(items) :
        i # j => NormalizedTitle(items[i]) # NormalizedTitle(items[j])

\* C23: the result of a search holds no two items whose normalized display
\* titles (trimmed, lower-cased) are equal, also when the title occurs
\* under different ids or in several categories.
C23_SearchResultTitlesDistinct ==
    SearchEvent(lastEvent) => DistinctTitles(lastEvent.list)

\* The same for searchMedia alone, which passes the result through
\* deduplicateByName.
SearchMediaTitlesDistinct ==
    lastEvent.op = "searchMedia" => DistinctTitles(lastEvent.list)

C25_CorruptEntryIsAbsent ==
    /\ [](job # NoJob => ~job.threw)
    /\ [][(/\ job # NoJob /\ job.pc = "called" /\ job' # job
           /\ cacheFiles[job.cat].kind \in CorruptKinds)
          => IF job.op = "loadCachedCategory"
             THEN job'.pc = "returned" /\ job'.items = <<>>
             ELSE \/ job'.pc = "download" /\ cacheFiles'[job.cat] = NoFile
                  \/ job'.pc = "returned" /\ job'.items = <<>>]_vars

\* downloadCategory found a corrupt file and has returned freshly
\* downloaded items.
C25_Witness ==
    /\ job # NoJob
    /\ job.op = "downloadCategory"
    /\ job.found \in CorruptKinds
    /\ job.pc = "returned"
    /\ job.items # <<>>
    /\ cacheFiles[job.cat].kind = "items"

\* C30: for a well-formed array of objects and any chunk size, the chunked
\* extractor returns the records the whole-file extractor returns: every
\* top-level object once, in order, up to maxItems.
C30_ChunkedEqualsFast ==
    (job.op = "extract" /\ job.fast.run /\ job.chunked.run)
        => job.chunked.items = job.fast.items

\* The items of the page whose answer this step merges into category c.
MergedThisStep(c) ==
    IF AnswerEvent(lastEvent') /\ lastEvent'.cat = c /\ lastEvent'.res = "ok"
    THEN FetchedItems(c, lastEvent'.page, "ok")
    ELSE <<>>

\* C26: in every step but the cache reset every stored item keeps its
\* position and its key, and it is left exactly as it was unless it carries
\* episodes and the page merged in this step holds an item of the same key
\* that carries episodes too: the first-seen item is never overwritten.
C26_FirstSeenWins ==
    [][\/ clearAllCaches
       \/ observe # "events"
       \/ \A c \in CATEGORIES : \A i \in 1..Len(getCategoryItems(c)) :
             LET old == getCategoryItems(c)[i]
                 new == getCategoryItems(c)'
                 arrived == MergedThisStep(c)
             IN /\ i <= Len(new)
                /\ KeyOf(new[i]) = KeyOf(old)
                /\ (new[i] # old) =>
                      /\ old.episodes.present
                      /\ \E k \in 1..Len(arrived) :
                            /\ KeyOf(arrived[k]) = KeyOf(old)
                            /\ arrived[k].episodes.present]_vars

\* The page just merged holds a series record with episodes whose key is
\* the one of a stored movie without episodes, and the movie is still the
\* item stored first.
C26_Witness ==
    /\ AnswerEvent(lastEvent)
    /\ lastEvent.res = "ok"
    /\ LET stored == getCategoryItems(lastEvent.cat)
           arrived == FetchedItems(lastEvent.cat, lastEvent.page, "ok")
       IN \E i \in 1..Len(stored) : \E k \in 1..Len(arrived) :
             /\ KeyOf(arrived[k]) = KeyOf(stored[i])
             /\ arrived[k].type = "tv"
             /\ arrived[k].episodes.present
             /\ arrived[k].id # stored[i].id
             /\ stored[i].type = "movie"
             /\ ~stored[i].episodes.present

\* The segment this step ran is the answer to the fetch of loop l.
LoopAnswerStep(l) ==
    /\ loops[l].pc = "fetch"
    /\ loops'[l].pc # "fetch"
    /\ lastEvent'.op = "loopAnswered"

\* C27: the answer to a fetch of the deep-loader calls onNewData once when
\* the page has items and not at all when the result is empty; the callback
\* finds every item of the page in the merged list of the category; after
\* an empty result the loop is out of the while of that category, at the
\* sleep between categories; no other segment calls onNewData.
C27_NotifiesOncePerPage ==
    [][/\ \A l \in LoopIds : LoopAnswerStep(l) =>
             LET c == loops[l].cat
                 newItems == FetchedItems(c, loops[l].page, lastEvent'.res)
             IN IF newItems # <<>>
                THEN /\ lastEvent'.notified = 1
                     /\ loops'[l].pc = "sleep500"
                     /\ \A i \in 1..Len(newItems) :
                           IndexOfKey(lastEvent'.list, KeyOf(newItems[i])) # 0
                     /\ lastEvent'.list = getCategoryItems(c)'
                ELSE /\ lastEvent'.notified = 0
                     /\ loops'[l].pc = "sleep200"
                     /\ loops'[l].cat = c
       /\ (lastEvent'.notified # 0 /\ lastEvent' # lastEvent)
             => \E l \in LoopIds : LoopAnswerStep(l)]_vars

\* The loader has just been answered a second page and has notified, and
\* the callback found the items of both pages.
C27_Witness ==
    /\ lastEvent.op = "loopAnswered"
    /\ lastEvent.notified = 1
    /\ lastEvent.page = 2
    /\ Len(lastEvent.list) > PAGE_SIZE
    /\ \E l \in LoopIds : loops[l].pc = "sleep500" /\ loops[l].cat = lastEvent.cat

\* C28: with finitely many pages per category the deep-loader, raced by the
\* interactive fetches, comes to its end and isBackgroundLoading is false
\* again.  A cached page N of a category implies a cursor of at least N, so
\* the loop never takes `continue` on a cached next page; every answer to
\* the loop's fetch leaves the cursor at the page asked for or beyond, which
\* is past the cursor the iteration started from, or puts the loop out of
\* the while of that category.
C28_LoaderTerminates ==
    /\ [](\A c \in CATEGORIES : \A p \in 1..(Len(RemotePages(c)) + 1) :
            PageCached(c, p) => LastPageOr(c, 0) >= p)
    /\ [](~Spinning)
    /\ [][\A l \in LoopIds :
             (loops[l].pc = "fetch" /\ loops'[l] # loops[l])
                => \/ loops'[l].pc = "sleep200"
                   \/ /\ loops'[l].pc = "sleep500"
                      /\ (loops[l].page > LastPageOr(loops[l].cat, 0)
                            => LastPageOr(loops[l].cat, 0)' = loops[l].page)
                      /\ LastPageOr(loops[l].cat, 0)' >= loops[l].page]_vars
    /\ isBackgroundLoading ~> ~isBackgroundLoading

\* The loader is asleep after a page that an interactive fetch had cached
\* while the loader's own request for it was in flight.
C28_Witness ==
    \E l \in LoopIds :
        /\ loops[l].pc = "sleep500"
        /\ lastEvent.op = "loopAnswered"
        /\ lastEvent.res = "ok"
        /\ LastPageOr(loops[l].cat, 0) > loops[l].page

\* C29: an answer that arrives right after the cache reset belongs to a
\* fetch issued before the reset, and it writes nothing into the cleared
\* caches: no page, no merged items, no cursor, no has-more flag.
C29_StaleAnswerDropped ==
    [][(lastEvent.op = "clearAllCaches" /\ AnswerEvent(lastEvent'))
          => UNCHANGED caches]_vars

====
